---- MODULE Spec2Model ----
(***************************************************************************)
(* TimedDict (src/timed_dict/timed_dict.py): a dictionary whose keys time  *)
(* out.  Two plain dicts, base_dict (values) and time_dict (deadlines),    *)
(* are mutated by caller threads and by one background sweep thread.  No   *)
(* lock is taken anywhere in the source, so every single dict operation    *)
(* (atomic under the interpreter lock) is one step of the model and the    *)
(* steps of different threads interleave freely.                           *)
(*                                                                         *)
(* Values are write ids (1, 2, ...): every set stores a fresh one, so that *)
(* "the same written entry" is recognisable.  Time is a bounded integer    *)
(* clock `now` advanced by Tick.                                           *)
(***************************************************************************)
EXTENDS Integers, FiniteSets, Sequences, TLC

\* ------------------------------------------------------------ bounds
MaxTime == 3        \* the clock runs over 0..MaxTime
MaxOps == 2         \* operations issued by each caller thread
MaxWrites == 2      \* set operations issued in total (the write ids)

\* ------------------------------------------------------------ configuration
Timeout == 2                   \* TimedDict(timeout=...)
CallbackConfigured == TRUE     \* TimedDict(callback=...)
ThresholdNum == 1              \* expired_keys_ratio = 1/2
ThresholdDen == 2
ChecksNum == 2                 \* checks_per_second = 2/1
ChecksDen == 1

Keys == {"k1", "k2"}
RaceKeys == {"k1"}             \* the key the concurrent callers contend for
Callers == {"c1", "c2"}
Sweeper == "sweeper"
Threads == Callers \cup {Sweeper}
WriteIds == 1..MaxWrites
NoKey == "nokey"
NoVal == 0
\* what an operation gave its caller: <<kind, value>>
Empty == <<"Empty", NoVal>>             \* an instance of class Empty
KeyError == <<"KeyError", NoVal>>       \* the operation raised KeyError
MissingError == <<"Exception", NoVal>>  \* set_expiration raised Exception
Returned == <<"None", NoVal>>           \* the operation returned None
Pending == <<"pending", NoVal>>         \* the operation is still running
Value(w) == <<"value", w>>              \* the stored value w
IsTrue == <<"True", NoVal>>             \* `key in d` evaluated to True
IsFalse == <<"False", NoVal>>           \* `key in d` evaluated to False

VARIABLES
    base_dict,          \* self.base_dict: key -> value
    time_dict,          \* self.time_dict: key -> deadline
    sweep_flag,         \* self.sweep_flag
    sample_probability, \* "frac" (0 < p < 1) or "one" (p = 1.0)
    now,                \* time.time()
    pc,                 \* per thread: the statement it is about to execute
    op,                 \* per thread: the running operation
    key,                \* per thread: the `key` argument / loop variable
    val,                \* per thread: the local `value`
    arg,                \* per caller: set_expiration's arguments
    res,                \* per caller: what the last operation returned
    cmp_time,           \* per caller: the clock a get compared (or returned at)
    cmp_val,            \* per caller: base_dict[key] when the get compared
    cmp_dl,             \* per caller: the deadline the get compared
    current_time,       \* sweep: current_time
    expire_keys,        \* sweep: expire_keys
    todo,               \* sweep: keys of expire_keys the for loop has not visited
    keys_checked,       \* sweep: keys_checked
    sleep_until,        \* sweep: end of the running time.sleep
    slept,              \* sweep: duration of the last sleep (0 when it did not sleep)
    cb_count,           \* history: callback invocations per (key, value)
    dl_owner,           \* history: the write whose set recorded time_dict[key]
    hist,               \* history: per key, the last completed set and what followed
    tracking,           \* history: whether hist is recorded (sequential runs)
    wdl,                \* history: the deadline each write computed (-1: not yet)
    nwrites,            \* history: set operations issued so far
    ops_left            \* history: operations each caller may still issue

shared == <<base_dict, time_dict, sweep_flag, sample_probability>>
locals == <<pc, op, key, val, arg, res, cmp_time, cmp_val, cmp_dl>>
sweepv == <<current_time, expire_keys, todo, keys_checked, sleep_until, slept>>
ghost == <<cb_count, dl_owner, hist, tracking, wdl, nwrites, ops_left>>
vars == <<shared, locals, sweepv, ghost, now>>

\* ------------------------------------------------------------ dict helpers
Has(d, k) == k \in DOMAIN d
Put(d, k, v) == [x \in DOMAIN d \cup {k} |-> IF x = k THEN v ELSE d[x]]
Del(d, k) == [x \in DOMAIN d \ {k} |-> d[x]]
EmptyDict == [x \in {} |-> 0]

NoneArg == {}                  \* a keyword argument left at its default None
Given(x) == x # {}
ValueOf(x) == CHOOSE v \in x : TRUE
ArgSet == [additional_seconds : {NoneArg, {1}}, seconds : {NoneArg, {1}},
           ignore_missing : BOOLEAN]
\* the calls of set_expiration the concurrent callers make
RaceArgs == {[additional_seconds |-> {1}, seconds |-> NoneArg, ignore_missing |-> FALSE],
             [additional_seconds |-> NoneArg, seconds |-> {1}, ignore_missing |-> TRUE]}
NoArg == [additional_seconds |-> NoneArg, seconds |-> NoneArg, ignore_missing |-> FALSE]
NoHist == [val |-> NoVal, at |-> 0, clean |-> FALSE, prev_at |-> -1,
           deleted |-> FALSE, cb |-> 0]

RECURSIVE SumTo(_, _)
SumTo(f, n) == IF n = 0 THEN 0 ELSE f[n] + SumTo(f, n - 1)
\* callback invocations so far with key k, whatever the value
CbTotal(k) == SumTo(cb_count[k], MaxWrites)

\* ------------------------------------------------------------ initial state
\* __init__: both dicts empty, the sweep thread started (it is at `while`).
InitWith(flag, prob, budget, track) ==
    /\ base_dict = EmptyDict
    /\ time_dict = EmptyDict
    /\ sweep_flag = flag
    /\ sample_probability = prob
    /\ now = 0
    /\ pc = [t \in Threads |-> IF t = Sweeper THEN "loop" ELSE "idle"]
    /\ op = [t \in Threads |-> IF t = Sweeper THEN "sweep" ELSE "none"]
    /\ key = [t \in Threads |-> NoKey]
    /\ val = [t \in Threads |-> NoVal]
    /\ arg = [t \in Threads |-> NoArg]
    /\ res = [t \in Threads |-> Pending]
    /\ cmp_time = [t \in Threads |-> -1]
    /\ cmp_val = [t \in Threads |-> NoVal]
    /\ cmp_dl = [t \in Threads |-> -1]
    /\ current_time = 0
    /\ expire_keys = {}
    /\ todo = {}
    /\ keys_checked = 0
    /\ sleep_until = 0
    /\ slept = <<0, 1>>
    /\ cb_count = [k \in Keys |-> [w \in WriteIds |-> 0]]
    /\ dl_owner = [k \in Keys |-> NoVal]
    /\ hist = [k \in Keys |-> NoHist]
    /\ tracking = track
    /\ wdl = [w \in WriteIds |-> -1]
    /\ nwrites = 0
    /\ ops_left = budget

Init == InitWith(TRUE, "frac", [t \in Threads |-> IF t = Sweeper THEN 0 ELSE MaxOps], FALSE)

\* ------------------------------------------------------------ thread helpers
Idle(c) == pc[c] = "idle" /\ ops_left[c] > 0

\* a caller starts operation o on key k; ct is the clock a get returns at
Start(c, o, k, ct) ==
    /\ op' = [op EXCEPT ![c] = o]
    /\ key' = [key EXCEPT ![c] = k]
    /\ ops_left' = [ops_left EXCEPT ![c] = @ - 1]
    /\ cmp_time' = [cmp_time EXCEPT ![c] = ct]
    /\ cmp_val' = [cmp_val EXCEPT ![c] = NoVal]
    /\ cmp_dl' = [cmp_dl EXCEPT ![c] = -1]

Locals(t, p, r, v, a) ==
    /\ pc' = [pc EXCEPT ![t] = p]
    /\ res' = [res EXCEPT ![t] = r]
    /\ val' = [val EXCEPT ![t] = v]
    /\ arg' = [arg EXCEPT ![t] = a]

\* the operation of thread t returns r (its locals are gone)
Return(t, r) == Locals(t, "idle", r, NoVal, NoArg)

\* an uncaught KeyError: a caller's operation ends with it, the sweep thread
\* dies; the `in` operator catches it and evaluates to False
Raise(t) ==
    Locals(t, IF t = Sweeper THEN "dead" ELSE "idle",
           IF op[t] = "contains" THEN IsFalse ELSE KeyError, NoVal, NoArg)

\* thread t goes on to statement p, with local value v and arguments a
GotoWith(t, p, v, a) == Locals(t, p, Pending, v, a)
Goto(t, p) == GotoWith(t, p, val[t], arg[t])

\* hist is recorded in the sequential runs only
Record(h) == hist' = IF tracking THEN h ELSE hist

\* ------------------------------------------------------------ clock
Tick ==
    /\ now < MaxTime
    /\ now' = now + 1
    /\ UNCHANGED <<shared, locals, sweepv, ghost>>

\* ------------------------------------------------------------ __getitem__
\* a strict comparison in place of line 239's `>=`
ExpiredStrict(t, deadline) == t > deadline

\* line 239: `time.time() >= self.time_dict[key]`
Expired(t, deadline) == t >= deadline

\* lines 237-238: `if key not in self.base_dict: return Empty()`
GetCheck(c, k) ==
    /\ Idle(c)
    /\ IF Has(base_dict, k)
         THEN Start(c, "get", k, -1) /\ GotoWith(c, "g2", NoVal, NoArg)
         ELSE Start(c, "get", k, now) /\ Return(c, Empty)
    /\ UNCHANGED <<shared, sweepv, now, cb_count, dl_owner, hist, tracking, wdl, nwrites>>

\* line 239: reads the clock, then self.time_dict[key] (KeyError when the key
\* has no deadline), and compares them
GetCompare(c) ==
    /\ pc[c] = "g2"
    /\ IF Has(time_dict, key[c])
         THEN /\ cmp_time' = [cmp_time EXCEPT ![c] = now]
              /\ cmp_val' = [cmp_val EXCEPT ![c] =
                     IF Has(base_dict, key[c]) THEN base_dict[key[c]] ELSE NoVal]
              /\ cmp_dl' = [cmp_dl EXCEPT ![c] = time_dict[key[c]]]
              /\ Goto(c, IF Expired(now, time_dict[key[c]]) THEN "e1" ELSE "g3")
         ELSE Raise(c) /\ UNCHANGED <<cmp_time, cmp_val, cmp_dl>>
    /\ UNCHANGED <<shared, sweepv, now, ghost, op, key>>

\* lines 244-248: `try: out = self.base_dict[key]; except KeyError: out = Empty()`
GetRead(c) ==
    /\ pc[c] = "g3"
    /\ Return(c, IF op[c] = "contains" THEN IsTrue
                 ELSE IF Has(base_dict, key[c]) THEN Value(base_dict[key[c]])
                 ELSE Empty)
    /\ UNCHANGED <<shared, sweepv, now, ghost, op, key, cmp_time, cmp_val, cmp_dl>>

\* `key in d`: TimedDict defines no __contains__, so the mixin of
\* collections.MutableMapping runs `self[key]` and answers False when that
\* raises KeyError, True otherwise.  This is its first step, lines 237-238.
ContainsCheck(c, k) ==
    /\ Idle(c)
    /\ IF Has(base_dict, k)
         THEN Start(c, "contains", k, -1) /\ GotoWith(c, "g2", NoVal, NoArg)
         ELSE Start(c, "contains", k, now) /\ Return(c, IsTrue)
    /\ UNCHANGED <<shared, sweepv, now, cb_count, dl_owner, hist, tracking, wdl, nwrites>>

\* ------------------------------------------------------------ expire_key
\* line 326: `value = self.base_dict[key]` (KeyError when the key is gone)
ExpireRead(t) ==
    /\ pc[t] = "e1"
    /\ IF Has(base_dict, key[t])
         THEN GotoWith(t, "d1", base_dict[key[t]], arg[t])
         ELSE Raise(t)
    /\ UNCHANGED <<shared, sweepv, now, ghost, op, key, cmp_time, cmp_val, cmp_dl>>

\* lines 328-330: `if self.callback is not None: self.callback(key, value, ...)`;
\* then expire_key returns to __getitem__ (line 244) or to sweep's for loop
ExpireCallback(t) ==
    /\ pc[t] = "e4"
    /\ cb_count' = IF CallbackConfigured
                     THEN [cb_count EXCEPT ![key[t]][val[t]] = @ + 1]
                     ELSE cb_count
    /\ GotoWith(t, IF t = Sweeper THEN "pick" ELSE "g3", NoVal, arg[t])
    /\ UNCHANGED <<shared, sweepv, now, dl_owner, hist, tracking, wdl, nwrites, ops_left,
                   op, key, cmp_time, cmp_val, cmp_dl>>

\* ------------------------------------------------------------ __delitem__
\* a __delitem__ that forgets base_dict and removes the deadline only
DelBaseStepKept(t, k, o) ==
    IF Has(base_dict, k)
      THEN /\ base_dict' = base_dict
           /\ Goto(t, "d2")
           /\ Record(IF o = "delete"
                       THEN [hist EXCEPT ![k].clean = FALSE, ![k].deleted = TRUE,
                                         ![k].cb = CbTotal(k)]
                       ELSE hist)
      ELSE Raise(t) /\ UNCHANGED <<base_dict, hist>>

\* line 195: `del self.base_dict[key]`, run by thread t for operation o
DelBaseStep(t, k, o) ==
    IF Has(base_dict, k)
      THEN /\ base_dict' = Del(base_dict, k)
           /\ Goto(t, "d2")
           /\ Record(IF o = "delete"
                       THEN [hist EXCEPT ![k].clean = FALSE, ![k].deleted = TRUE,
                                         ![k].cb = CbTotal(k)]
                       ELSE hist)
      ELSE Raise(t) /\ UNCHANGED <<base_dict, hist>>

\* `del d[key]` by a caller
Delete(c, k) ==
    /\ Idle(c)
    /\ Start(c, "delete", k, -1)
    /\ DelBaseStep(c, k, "delete")
    /\ UNCHANGED <<time_dict, sweep_flag, sample_probability, sweepv, now,
                   cb_count, dl_owner, tracking, wdl, nwrites>>

\* `del self[key]` inside expire_key (line 327)
DelBase(t) ==
    /\ pc[t] = "d1"
    /\ DelBaseStep(t, key[t], op[t])
    /\ UNCHANGED <<time_dict, sweep_flag, sample_probability, sweepv, now,
                   cb_count, dl_owner, tracking, wdl, nwrites, ops_left, op, key,
                   cmp_time, cmp_val, cmp_dl>>

\* line 196: `del self.time_dict[key]`; then __delitem__ returns, to the caller
\* or into expire_key (line 328)
DelTime(t) ==
    /\ pc[t] = "d2"
    /\ IF Has(time_dict, key[t])
         THEN /\ time_dict' = Del(time_dict, key[t])
              /\ dl_owner' = [dl_owner EXCEPT ![key[t]] = NoVal]
              /\ IF op[t] = "delete" THEN Return(t, Returned) ELSE Goto(t, "e4")
         ELSE Raise(t) /\ UNCHANGED <<time_dict, dl_owner>>
    /\ UNCHANGED <<base_dict, sweep_flag, sample_probability, sweepv, now,
                   cb_count, hist, tracking, wdl, nwrites, ops_left, op, key,
                   cmp_time, cmp_val, cmp_dl>>

\* ------------------------------------------------------------ __setitem__
\* line 257: `time.time() + self.timeout`
Deadline(t) == t + Timeout

\* line 256: `self.base_dict[key] = value`
SetBase(c, k) ==
    /\ Idle(c)
    /\ nwrites < MaxWrites
    /\ nwrites' = nwrites + 1
    /\ Start(c, "set", k, -1)
    /\ base_dict' = Put(base_dict, k, nwrites + 1)
    /\ GotoWith(c, "w2", nwrites + 1, NoArg)
    /\ UNCHANGED <<time_dict, sweep_flag, sample_probability, sweepv, now,
                   cb_count, dl_owner, hist, tracking, wdl>>

\* a __setitem__ that keeps the deadline of a key it overwrites
\* (`self.time_dict.setdefault(key, ...)`)
SetTimeKeepsOld(c) ==
    /\ pc[c] = "w2"
    /\ time_dict' = IF Has(time_dict, key[c]) THEN time_dict
                     ELSE Put(time_dict, key[c], Deadline(now))
    /\ dl_owner' = [dl_owner EXCEPT ![key[c]] = val[c]]
    /\ Record([hist EXCEPT ![key[c]] =
                  [val |-> val[c], at |-> now, clean |-> TRUE,
                   prev_at |-> IF hist[key[c]].clean THEN hist[key[c]].at ELSE -1,
                   deleted |-> FALSE, cb |-> CbTotal(key[c])]])
    /\ wdl' = [wdl EXCEPT ![val[c]] = Deadline(now)]
    /\ Return(c, Returned)
    /\ UNCHANGED <<base_dict, sweep_flag, sample_probability, sweepv, now,
                   cb_count, tracking, nwrites, ops_left, op, key, cmp_time, cmp_val, cmp_dl>>

\* line 257: `self.time_dict[key] = time.time() + self.timeout`
SetTime(c) ==
    /\ pc[c] = "w2"
    /\ time_dict' = Put(time_dict, key[c], Deadline(now))
    /\ dl_owner' = [dl_owner EXCEPT ![key[c]] = val[c]]
    /\ Record([hist EXCEPT ![key[c]] =
                  [val |-> val[c], at |-> now, clean |-> TRUE,
                   prev_at |-> IF hist[key[c]].clean THEN hist[key[c]].at ELSE -1,
                   deleted |-> FALSE, cb |-> CbTotal(key[c])]])
    /\ wdl' = [wdl EXCEPT ![val[c]] = Deadline(now)]
    /\ Return(c, Returned)
    /\ UNCHANGED <<base_dict, sweep_flag, sample_probability, sweepv, now,
                   cb_count, tracking, nwrites, ops_left, op, key, cmp_time, cmp_val, cmp_dl>>

\* ------------------------------------------------------------ set_expiration
\* lines 213-214: `if key not in self.time_dict and ignore_missing: return`
SetExpiration(c, k, a) ==
    /\ Idle(c)
    /\ Start(c, "set_expiration", k, -1)
    /\ IF ~Has(time_dict, k) /\ a.ignore_missing
         THEN Return(c, Returned)
         ELSE GotoWith(c, "x2", NoVal, a)
    /\ UNCHANGED <<shared, sweepv, now, cb_count, dl_owner, hist, tracking, wdl, nwrites>>

\* a set_expiration that never raises: a missing key is passed over in silence
SetExpirationCheckSilent(c) ==
    /\ pc[c] = "x2"
    /\ IF ~Has(time_dict, key[c]) /\ ~arg[c].ignore_missing
         THEN Return(c, Returned)
         ELSE IF Given(arg[c].additional_seconds) THEN Goto(c, "x3")
         ELSE IF Given(arg[c].seconds) THEN Goto(c, "x5")
         ELSE Return(c, Returned)
    /\ UNCHANGED <<shared, sweepv, now, ghost, op, key, cmp_time, cmp_val, cmp_dl>>

\* lines 215-221: the second membership test, the raise, and the choice of branch
SetExpirationCheck(c) ==
    /\ pc[c] = "x2"
    /\ IF ~Has(time_dict, key[c]) /\ ~arg[c].ignore_missing
         THEN Return(c, MissingError)
         ELSE IF Given(arg[c].additional_seconds) THEN Goto(c, "x3")
         ELSE IF Given(arg[c].seconds) THEN Goto(c, "x5")
         ELSE Return(c, Returned)
    /\ UNCHANGED <<shared, sweepv, now, ghost, op, key, cmp_time, cmp_val, cmp_dl>>

\* line 219, the load of `self.time_dict[key] += additional_seconds`
SetExpirationLoad(c) ==
    /\ pc[c] = "x3"
    /\ IF Has(time_dict, key[c])
         THEN GotoWith(c, "x4", time_dict[key[c]], arg[c])
         ELSE Raise(c)
    /\ UNCHANGED <<shared, sweepv, now, ghost, op, key, cmp_time, cmp_val, cmp_dl>>

\* an additional_seconds counted from the clock instead of the old deadline
SetExpirationAddFromNow(c) ==
    /\ pc[c] = "x4"
    /\ time_dict' = Put(time_dict, key[c], now + ValueOf(arg[c].additional_seconds))
    /\ Record([hist EXCEPT ![key[c]].clean = FALSE])
    /\ Return(c, Returned)
    /\ UNCHANGED <<base_dict, sweep_flag, sample_probability, sweepv, now,
                   cb_count, dl_owner, tracking, wdl, nwrites, ops_left, op, key,
                   cmp_time, cmp_val, cmp_dl>>

\* line 219, the store of `self.time_dict[key] += additional_seconds`
SetExpirationAdd(c) ==
    /\ pc[c] = "x4"
    /\ time_dict' = Put(time_dict, key[c], val[c] + ValueOf(arg[c].additional_seconds))
    /\ Record([hist EXCEPT ![key[c]].clean = FALSE])
    /\ Return(c, Returned)
    /\ UNCHANGED <<base_dict, sweep_flag, sample_probability, sweepv, now,
                   cb_count, dl_owner, tracking, wdl, nwrites, ops_left, op, key,
                   cmp_time, cmp_val, cmp_dl>>

\* line 221: `self.time_dict[key] = time.time() + seconds`
SetExpirationSeconds(c) ==
    /\ pc[c] = "x5"
    /\ time_dict' = Put(time_dict, key[c], now + ValueOf(arg[c].seconds))
    /\ dl_owner' = [dl_owner EXCEPT ![key[c]] = NoVal]
    /\ Record([hist EXCEPT ![key[c]].clean = FALSE])
    /\ Return(c, Returned)
    /\ UNCHANGED <<base_dict, sweep_flag, sample_probability, sweepv, now,
                   cb_count, tracking, wdl, nwrites, ops_left, op, key, cmp_time, cmp_val, cmp_dl>>

\* ------------------------------------------------------------ stop_sweep
\* line 337: `self.sweep_flag = False`
StopSweep(c) ==
    /\ Idle(c)
    /\ Start(c, "stop_sweep", NoKey, -1)
    /\ sweep_flag' = FALSE
    /\ Return(c, Returned)
    /\ UNCHANGED <<base_dict, time_dict, sample_probability, sweepv, now,
                   cb_count, dl_owner, hist, tracking, wdl, nwrites>>

\* ------------------------------------------------------------ sweep
\* rationals are <<numerator, denominator>>
\* `<=` in place of line 315's `<`
LessOrEqual(a, b) == a[1] * b[2] <= b[1] * a[2]

\* line 315: `expired_keys_ratio < self.expired_keys_ratio`
Less(a, b) == a[1] * b[2] < b[1] * a[2]
Inverse(q) == <<q[2], q[1]>>
Ceil(q) == (q[1] + q[2] - 1) \div q[2]

\* line 171: `self.checks_per_second = 1. / checks_per_second`
SelfChecksPerSecond == Inverse(<<ChecksNum, ChecksDen>>)
\* line 316: `1. / self.checks_per_second`
SleepSeconds == Inverse(SelfChecksPerSecond)
\* line 173
SelfExpiredKeysRatio == <<ThresholdNum, ThresholdDen>>

\* line 302: the samples `random.random() > self.sample_probability` can leave
SampleSets(K) == IF sample_probability = "one" THEN {K} ELSE SUBSET K

\* a strict comparison in place of line 305's `>=`
SweepExpiredStrict(t, deadline) == t > deadline

\* line 305: `current_time >= expire_time`
SweepExpired(t, deadline) == t >= deadline

\* a sweep loop that never tests the flag (`while True:`)
SweepBeginIgnoresFlag ==
    /\ pc[Sweeper] = "loop"
    /\ current_time' = now
    /\ pc' = [pc EXCEPT ![Sweeper] = "snap"]
    /\ expire_keys' = {}
    /\ keys_checked' = 0
    /\ UNCHANGED <<shared, now, ghost, op, key, val, arg, res, cmp_time, cmp_val, cmp_dl,
                   todo, sleep_until, slept>>

\* lines 296-299: `while self.sweep_flag:`, then the pass reads the clock
SweepBegin ==
    /\ pc[Sweeper] = "loop"
    /\ IF sweep_flag
         THEN /\ current_time' = now
              /\ pc' = [pc EXCEPT ![Sweeper] = "snap"]
         ELSE /\ pc' = [pc EXCEPT ![Sweeper] = "exited"]
              /\ UNCHANGED current_time
    /\ expire_keys' = {}
    /\ keys_checked' = 0
    /\ UNCHANGED <<shared, now, ghost, op, key, val, arg, res, cmp_time, cmp_val, cmp_dl,
                   todo, sleep_until, slept>>

\* lines 300-309: the snapshot of time_dict, the sample, the stale keys of it
SweepSnapshot ==
    /\ pc[Sweeper] = "snap"
    /\ \E sample \in SampleSets(DOMAIN time_dict) :
         /\ keys_checked' = Cardinality(sample)
         /\ expire_keys' = {k \in sample : SweepExpired(current_time, time_dict[k])}
         /\ todo' = {k \in sample : SweepExpired(current_time, time_dict[k])}
    /\ pc' = [pc EXCEPT ![Sweeper] = "pick"]
    /\ UNCHANGED <<shared, now, ghost, op, key, val, arg, res, cmp_time, cmp_val, cmp_dl,
                   current_time, sleep_until, slept>>

\* lines 310-311: `for key in expire_keys: self.expire_key(key)`, next key
SweepNext ==
    /\ pc[Sweeper] = "pick"
    /\ \E k \in todo :
         /\ key' = [key EXCEPT ![Sweeper] = k]
         /\ todo' = todo \ {k}
    /\ pc' = [pc EXCEPT ![Sweeper] = "e1"]
    /\ UNCHANGED <<shared, now, ghost, op, val, arg, res, cmp_time, cmp_val, cmp_dl,
                   current_time, expire_keys, keys_checked, sleep_until, slept>>

\* lines 312-314
ExpiredKeysRatio ==
    IF keys_checked > 0 THEN <<Cardinality(expire_keys), keys_checked>> ELSE <<0, 1>>

\* lines 312-316: the for loop is over; sleep, or start the next pass at once.
\* The locals of the finished pass are dead (lines 297-300 assign them anew).
SweepDecide ==
    /\ pc[Sweeper] = "pick"
    /\ todo = {}
    /\ IF Less(ExpiredKeysRatio, SelfExpiredKeysRatio)
         THEN /\ pc' = [pc EXCEPT ![Sweeper] = "sleep"]
              /\ slept' = SleepSeconds
              /\ sleep_until' = now + Ceil(SleepSeconds)
         ELSE /\ pc' = [pc EXCEPT ![Sweeper] = "loop"]
              /\ slept' = <<0, 1>>
              /\ UNCHANGED sleep_until
    /\ key' = [key EXCEPT ![Sweeper] = NoKey]
    /\ current_time' = 0
    /\ expire_keys' = {}
    /\ keys_checked' = 0
    /\ UNCHANGED <<shared, now, ghost, op, val, arg, res, cmp_time, cmp_val, cmp_dl, todo>>

\* line 316: time.sleep returns once the duration has passed (the clock of the
\* model stops at MaxTime, which stands for every later time)
SweepWake ==
    /\ pc[Sweeper] = "sleep"
    /\ now >= sleep_until \/ now = MaxTime
    /\ pc' = [pc EXCEPT ![Sweeper] = "loop"]
    /\ sleep_until' = 0
    /\ UNCHANGED <<shared, now, ghost, op, key, val, arg, res, cmp_time, cmp_val, cmp_dl,
                   current_time, expire_keys, todo, keys_checked, slept>>

\* ------------------------------------------------------------ specifications
\* the callers' operations, on keys K, set_expiration called with arguments A
CallerNext(K, A) ==
    \/ \E c \in Callers, k \in K : GetCheck(c, k)
    \/ \E c \in Callers : GetCompare(c)
    \/ \E c \in Callers : GetRead(c)
    \/ \E c \in Callers, k \in K : SetBase(c, k)
    \/ \E c \in Callers : SetTime(c)
    \/ \E c \in Callers, k \in K : Delete(c, k)
    \/ \E c \in Callers, k \in K, a \in A : SetExpiration(c, k, a)
    \/ \E c \in Callers : SetExpirationCheck(c)
    \/ \E c \in Callers : SetExpirationLoad(c)
    \/ \E c \in Callers : SetExpirationAdd(c)
    \/ \E c \in Callers : SetExpirationSeconds(c)

ExpireNext ==
    \/ \E t \in Threads : ExpireRead(t)
    \/ \E t \in Threads : DelBase(t)
    \/ \E t \in Threads : DelTime(t)
    \/ \E t \in Threads : ExpireCallback(t)

SweepLoopNext ==
    \/ SweepSnapshot
    \/ SweepNext
    \/ SweepDecide
    \/ SweepWake

\* two callers contending for one key, and the sweep thread, freely interleaved
Next == Tick \/ CallerNext(RaceKeys, RaceArgs) \/ ExpireNext \/ SweepBegin \/ SweepLoopNext

Spec == Init /\ [][Next]_vars

\* one caller, sweeping disabled (sweep_flag=False): the sweep thread leaves
\* its loop at once and the caller's operations run one after the other
MaxSeqOps == 3
SeqInit == InitWith(FALSE, "frac", [t \in Threads |-> IF t = "c1" THEN MaxSeqOps ELSE 0], TRUE)
SeqNext == Tick \/ CallerNext(Keys, ArgSet) \/ ExpireNext \/ SweepBegin
SeqSpec == SeqInit /\ [][SeqNext]_vars

\* callers that only set and delete (no get is issued), on every key, and the
\* sweep thread, under fair scheduling: the clock advances, every thread that
\* can take a step eventually takes one, and a sweep pass that can sample every
\* key infinitely often eventually does
FairInit == InitWith(TRUE, "frac", [t \in Threads |-> IF t = "c1" THEN MaxOps ELSE IF t = "c2" THEN MaxOps - 1 ELSE 0], FALSE)
FairCallerNext ==
    \/ \E c \in Callers, k \in Keys : SetBase(c, k)
    \/ \E c \in Callers : SetTime(c)
    \/ \E c \in Callers, k \in Keys : Delete(c, k)
FairNext == Tick \/ FairCallerNext \/ ExpireNext \/ SweepBegin \/ SweepLoopNext
SweeperStep ==
    \/ SweepBegin \/ SweepSnapshot \/ SweepNext \/ SweepDecide \/ SweepWake
    \/ ExpireRead(Sweeper) \/ DelBase(Sweeper) \/ DelTime(Sweeper)
    \/ ExpireCallback(Sweeper)
CallerStep(c) == SetTime(c) \/ DelTime(c)
SweepSnapshotAll == SweepSnapshot /\ keys_checked' = Cardinality(DOMAIN time_dict)
Fairness ==
    /\ WF_vars(Tick)
    /\ WF_vars(SweeperStep)
    /\ SF_vars(SweepSnapshotAll)
    /\ \A c \in Callers : WF_vars(CallerStep(c))
FairSpec == FairInit /\ [][FairNext]_vars /\ Fairness

\* callers that set keys and call stop_sweep (no get, no delete), and the sweep
\* thread, under the same fair scheduling
StopInit == InitWith(TRUE, "frac", [t \in Threads |-> IF t = "c1" THEN MaxOps ELSE IF t = "c2" THEN MaxOps - 1 ELSE 0], FALSE)
StopCallerNext ==
    \/ \E c \in Callers, k \in Keys : SetBase(c, k)
    \/ \E c \in Callers : SetTime(c)
    \/ \E c \in Callers : StopSweep(c)
StopNext == Tick \/ StopCallerNext \/ ExpireNext \/ SweepBegin \/ SweepLoopNext
StopSpec == StopInit /\ [][StopNext]_vars /\ Fairness

\* sample_probability = 1.0 and no caller operation during a sweep pass: one
\* caller sets and deletes keys while the sweep thread is at its `while` test
\* or asleep, and a pass begins only while the caller is between operations
SweeperResting == pc[Sweeper] \in {"loop", "sleep"}
CallersIdle == \A c \in Callers : pc[c] = "idle"
QuietInit == InitWith(TRUE, "one", [t \in Threads |-> IF t = "c1" THEN MaxSeqOps ELSE 0], FALSE)
QuietNext ==
    \/ Tick
    \/ SweeperResting /\ FairCallerNext
    \/ SweeperResting /\ \E c \in Callers : DelTime(c)
    \/ CallersIdle /\ SweepBegin
    \/ SweepLoopNext
    \/ ExpireRead(Sweeper)
    \/ DelBase(Sweeper)
    \/ DelTime(Sweeper)
    \/ ExpireCallback(Sweeper)
QuietSpec == QuietInit /\ [][QuietNext]_vars

\* one caller, sweeping disabled, that also evaluates `key in d`
ContainsNext == SeqNext \/ \E c \in Callers, k \in Keys : ContainsCheck(c, k)
ContainsSpec == SeqInit /\ [][ContainsNext]_vars

\* ------------------------------------------------------------ properties
\* caller c's last operation was a get, and it has returned
GetDone(c) == pc[c] = "idle" /\ op[c] = "get"
IsValue(r) == r[1] = "value"

\* C1: sweeping disabled, one caller.  After set(k, v) recorded at time t, with
\* no delete, overwrite or set_expiration of k since, a get(k) that compares the
\* clock at t' returns v when t' < t + timeout and Empty when t' >= t + timeout.
C1_GetWithinTimeout ==
    \A c \in Callers :
        (GetDone(c) /\ hist[key[c]].clean) =>
            /\ cmp_time[c] < hist[key[c]].at + Timeout => res[c] = Value(hist[key[c]].val)
            /\ cmp_time[c] >= hist[key[c]].at + Timeout => res[c] = Empty

\* a get at exactly t + timeout has found the key expired
C1_Witness ==
    \E c \in Callers :
        /\ GetDone(c)
        /\ hist[key[c]].clean
        /\ cmp_time[c] = hist[key[c]].at + Timeout
        /\ res[c] = Empty

\* C7: after delete(k) on a held key, a get(k) with no set in between returns
\* Empty, and the callback has not been invoked for k since the delete began.
C7_DeleteThenGet ==
    \A c \in Callers :
        (GetDone(c) /\ hist[key[c]].deleted) =>
            /\ res[c] = Empty
            /\ CbTotal(key[c]) = hist[key[c]].cb

\* a get has returned after the delete of a held key
C7_Witness ==
    \E c \in Callers : GetDone(c) /\ hist[key[c]].deleted /\ res[c] = Empty

\* C8: delete(k) on a key held by neither mapping does not raise: it reports
\* Empty and leaves both mappings unchanged.
C8_DeleteAbsent ==
    [][\A c \in Callers, k \in Keys :
          (/\ Idle(c)
           /\ ~Has(base_dict, k) /\ ~Has(time_dict, k)
           /\ ops_left'[c] < ops_left[c]
           /\ op'[c] = "delete" /\ key'[c] = k)
          => (res'[c] = Empty /\ UNCHANGED <<base_dict, time_dict>>)]_vars

\* C9: set(k, v1) at t1, then set(k, v2) at t2 < t1 + timeout (nothing else on
\* k but gets): the recorded deadline is t2 + timeout, and a get(k) that
\* compares the clock before t2 + timeout returns v2.
C9_OverwriteResetsDeadline ==
    \A k \in Keys :
        (/\ hist[k].clean
         /\ hist[k].prev_at >= 0
         /\ hist[k].at < hist[k].prev_at + Timeout) =>
            /\ Has(time_dict, k) => time_dict[k] = hist[k].at + Timeout
            /\ \A c \in Callers :
                 (GetDone(c) /\ key[c] = k /\ cmp_time[c] < hist[k].at + Timeout)
                     => res[c] = Value(hist[k].val)

\* a get at or after t1 + timeout, before t2 + timeout, has returned v2
C9_Witness ==
    \E c \in Callers :
        /\ GetDone(c)
        /\ hist[key[c]].clean
        /\ hist[key[c]].prev_at >= 0
        /\ hist[key[c]].at < hist[key[c]].prev_at + Timeout
        /\ cmp_time[c] >= hist[key[c]].prev_at + Timeout
        /\ res[c] = Value(hist[key[c]].val)

\* C2: callers and sweep thread interleaved.  A get never returns a value past
\* its deadline as of the get's comparison: when it returns the value that was
\* stored as it compared, the deadline it compared was later than the clock it
\* read; any other value it returns was written after the comparison, and the
\* deadline its writer computed is later than that clock.
C2_NoStaleRead ==
    \A c \in Callers :
        (GetDone(c) /\ IsValue(res[c])) =>
            IF res[c][2] = cmp_val[c]
              THEN cmp_time[c] < cmp_dl[c]
              ELSE wdl[res[c][2]] = -1 \/ wdl[res[c][2]] > cmp_time[c]

\* a get found the key expired, ran expire_key, and still returned a value:
\* the one a concurrent set stored meanwhile
C2_Witness ==
    \E c \in Callers :
        /\ GetDone(c)
        /\ IsValue(res[c])
        /\ cmp_dl[c] >= 0
        /\ cmp_time[c] >= cmp_dl[c]

\* C3: the callback is never invoked twice for the same written entry (k, v).
C3_CallbackOnce ==
    \A k \in Keys, w \in WriteIds : cb_count[k][w] <= 1

\* no caller is inside an operation and the sweep thread is not inside expire_key
Quiescent ==
    /\ \A c \in Callers : pc[c] = "idle"
    /\ pc[Sweeper] \notin {"e1", "d1", "d2", "e4"}

\* C5: once every started operation has completed, base_dict and time_dict
\* hold the same keys.
C5_Lockstep == Quiescent => DOMAIN base_dict = DOMAIN time_dict

\* C6: a get returns the stored value or Empty; it never fails with an error.
C6_GetAtomic ==
    \A c \in Callers : GetDone(c) => (IsValue(res[c]) \/ res[c] = Empty)

\* C10: two set operations on the same key have both completed: the entry
\* holds the value of one of them with the deadline that same one computed.
C10_LastWriterWins ==
    \A k \in Keys :
        (/\ \A c \in Callers : pc[c] = "idle" /\ op[c] = "set" /\ key[c] = k
         /\ Has(base_dict, k) /\ Has(time_dict, k))
        => (dl_owner[k] = base_dict[k] \/ time_dict[k] = wdl[base_dict[k]])

\* the store holds the entry written as w under k
Holds(k, w) == Has(base_dict, k) /\ base_dict[k] = w
\* ... its set has completed, and the deadline it computed and the deadline
\* recorded for k have both passed
StaleEntry(k, w) ==
    /\ Holds(k, w)
    /\ wdl[w] >= 0 /\ wdl[w] <= now
    /\ Has(time_dict, k) /\ time_dict[k] <= now

\* the entry has left the store (swept, deleted or overwritten), or a later
\* deadline has been recorded for its key
Settled(k, w) == ~Holds(k, w) \/ (Has(time_dict, k) /\ time_dict[k] > now)

\* C4: the sweeper is never stopped and samples fairly, no get is issued: every
\* entry whose deadline has passed eventually leaves the store.
C4_SweepLive ==
    \A k \in Keys, w \in WriteIds : StaleEntry(k, w) ~> Settled(k, w)

\* the same, for as long as the sweep thread has not died of an uncaught
\* KeyError and the key still has a deadline for the sweep to find
C4_LiveWhileAlive ==
    \A k \in Keys, w \in WriteIds :
        StaleEntry(k, w) ~>
            (Settled(k, w) \/ pc[Sweeper] = "dead" \/ ~Has(time_dict, k))

\* caller c takes a step of its set_expiration on key k
SetExpirationStep(c, k) ==
    /\ op'[c] = "set_expiration" /\ key'[c] = k
    /\ pc'[c] # pc[c] \/ ops_left'[c] < ops_left[c]
\* ... and the step begins the call
SetExpirationStarts(c, k) == SetExpirationStep(c, k) /\ ops_left'[c] < ops_left[c]
\* ... and the step ends the call
SetExpirationEnds(c, k) == SetExpirationStep(c, k) /\ pc'[c] = "idle"

\* C11: one caller, sweeping disabled.  set_expiration on a key the store does
\* not hold changes neither mapping; with ignore_missing it returns None at
\* once, without it the call goes on to raise the key-missing Exception.
C11_SetExpirationAbsent ==
    [][\A c \in Callers, k \in Keys :
          (SetExpirationStep(c, k) /\ ~Has(base_dict, k) /\ ~Has(time_dict, k)) =>
              /\ UNCHANGED <<base_dict, time_dict>>
              /\ SetExpirationStarts(c, k) =>
                     \/ res'[c] = Returned /\ pc'[c] = "idle"
                     \/ pc'[c] = "x2" /\ ~arg'[c].ignore_missing
              /\ ~SetExpirationStarts(c, k) =>
                     /\ ~arg[c].ignore_missing
                     /\ res'[c] = MissingError /\ pc'[c] = "idle"]_vars

\* a set_expiration without ignore_missing has raised on a key that is not held
C11_Witness ==
    \E c \in Callers :
        /\ pc[c] = "idle" /\ op[c] = "set_expiration"
        /\ res[c] = MissingError
        /\ ~Has(base_dict, key[c]) /\ ~Has(time_dict, key[c])

\* the deadline set_expiration leaves, called with arguments a at clock t on a
\* key whose deadline was d
NewDeadline(a, d, t) ==
    IF Given(a.additional_seconds) THEN d + ValueOf(a.additional_seconds)
    ELSE IF Given(a.seconds) THEN t + ValueOf(a.seconds)
    ELSE d

\* C12: one caller, sweeping disabled.  set_expiration on a held key leaves
\* base_dict and every other key's deadline as they were, and returns with k's
\* deadline at old + additional_seconds, else now + seconds, else unchanged.
C12_SetExpirationFrame ==
    [][\A c \in Callers, k \in Keys :
          (SetExpirationStep(c, k) /\ Has(base_dict, k) /\ Has(time_dict, k)) =>
              /\ base_dict' = base_dict
              /\ DOMAIN time_dict' = DOMAIN time_dict
              /\ \A j \in DOMAIN time_dict \ {k} : time_dict'[j] = time_dict[j]
              /\ IF SetExpirationEnds(c, k)
                   THEN /\ res'[c] = Returned
                        /\ time_dict'[k] = NewDeadline(arg[c], time_dict[k], now)
                   ELSE time_dict'[k] = time_dict[k]]_vars

\* set_expiration(k, additional_seconds=1) has returned on a key set at `at`:
\* its deadline is at + timeout + 1
C12_Witness ==
    \E c \in Callers :
        /\ pc[c] = "idle" /\ op[c] = "set_expiration" /\ res[c] = Returned
        /\ Has(base_dict, key[c]) /\ Has(time_dict, key[c])
        /\ base_dict[key[c]] = hist[key[c]].val
        /\ time_dict[key[c]] = hist[key[c]].at + Timeout + 1
        /\ now > hist[key[c]].at

\* the sweep thread is at the `while` test, or has left the loop
BetweenPasses == pc[Sweeper] \in {"loop", "exited"}

\* the sweep thread has ended: it left the loop, or an uncaught KeyError of
\* expire_key ended it
Terminated == pc[Sweeper] \in {"exited", "dead"}

\* C13: stop_sweep is one-way and ends the sweep thread: the flag never turns
\* true again, a thread at the `while` test with the flag false begins no other
\* pass, a thread that has ended stays ended, and once the flag is false the
\* thread (after the pass and the sleep it is in) eventually ends.
C13_StopTerminates ==
    /\ [][~sweep_flag => ~sweep_flag']_vars
    /\ [][(~sweep_flag /\ BetweenPasses) => BetweenPasses']_vars
    /\ [][Terminated => UNCHANGED pc[Sweeper]]_vars
    /\ (~sweep_flag ~> Terminated)

\* stop_sweep was called on a sweep thread that had expired a key, and the
\* thread has left its loop
C13_Witness ==
    /\ \E c \in Callers : op[c] = "stop_sweep"
    /\ ~sweep_flag
    /\ pc[Sweeper] = "exited"
    /\ \E k \in Keys : CbTotal(k) > 0

\* C14 as stated: callers only set and stop (no get, no delete).  From the
\* moment stop_sweep has returned, a key the store holds is held ever after.
C14_KeptAfterStop ==
    [][\A k \in Keys : (~sweep_flag /\ Has(base_dict, k)) => Has(base_dict', k)]_vars

\* C14, amended: once stop_sweep has returned and the sweep thread has finished
\* the pass and the sleep it was in, a key the store holds is held ever after.
C14_KeptOnceStopped ==
    \A k \in Keys :
        []((~sweep_flag /\ BetweenPasses /\ Has(base_dict, k)) => []Has(base_dict, k))

\* the sweep thread has left its loop and the store holds a key past its deadline
C14_Witness ==
    /\ ~sweep_flag
    /\ pc[Sweeper] = "exited"
    /\ \E k \in Keys : Has(base_dict, k) /\ Has(time_dict, k) /\ time_dict[k] <= now

\* equality of rationals
Same(a, b) == a[1] * b[2] = b[1] * a[2]
\* 1 / checks_per_second, the interval the constructor's docstring promises
DocumentedInterval == <<ChecksDen, ChecksNum>>

\* C15: a sleeping sweep thread sleeps 1 / checks_per_second seconds.
C15_SleepInterval == pc[Sweeper] = "sleep" => Same(slept, DocumentedInterval)

\* the sweep thread executes the `del self.base_dict[key]` of expire_key
SweeperRemoves(k) ==
    /\ pc[Sweeper] = "d1" /\ pc'[Sweeper] = "d2" /\ key[Sweeper] = k
    /\ Has(base_dict, k) /\ ~Has(base_dict', k)

\* C16: the sweep thread never removes an entry whose recorded deadline is
\* later than the clock.
C16_SweepSkipsFresh ==
    [][\A k \in Keys :
          SweeperRemoves(k) => ~(Has(time_dict, k) /\ time_dict[k] > now)]_vars

\* C17: the sweep thread never ends by an uncaught KeyError.
C17_SweeperSurvives == pc[Sweeper] # "dead"

\* the for loop of a pass is over and the sweep thread is at line 312
PassDone == pc[Sweeper] = "pick" /\ todo = {}

\* stale_count / keys_checked >= expired_keys_ratio, the ratio being 0 when
\* nothing was sampled
RatioReachesThreshold ==
    IF keys_checked > 0
      THEN Cardinality(expire_keys) * ThresholdDen >= ThresholdNum * keys_checked
      ELSE ThresholdNum <= 0

C19_FullPassDrains ==
    /\ [](PassDone =>
            /\ DOMAIN base_dict = DOMAIN time_dict
            /\ \A k \in DOMAIN time_dict : time_dict[k] > current_time)
    /\ [][\A k \in Keys :
            SweeperRemoves(k) => (Has(time_dict, k) /\ time_dict[k] <= current_time)]_vars

\* a pass is over that removed the one expired key, fired its callback, and
\* kept the other key
C19_Witness ==
    /\ PassDone
    /\ sample_probability = "one"
    /\ Cardinality(expire_keys) = 1
    /\ expire_keys \cap DOMAIN base_dict = {}
    /\ Cardinality(DOMAIN base_dict) = 1
    /\ \E k \in expire_keys : CbTotal(k) > 0

\* caller c takes a step of its evaluation of `k in d`
ContainsStep(c, k) ==
    /\ op'[c] = "contains" /\ key'[c] = k
    /\ pc'[c] # pc[c] \/ ops_left'[c] < ops_left[c]

\* C20: one caller, sweeping disabled.  Evaluating `k in d` removes no entry
\* and fires no callback, and it answers True for a key the store holds and
\* False for one it does not hold.
C20_ContainsReadOnly ==
    [][\A c \in Callers, k \in Keys :
          ContainsStep(c, k) =>
              /\ UNCHANGED <<base_dict, time_dict, cb_count>>
              /\ pc'[c] = "idle" =>
                     res'[c] = IF Has(base_dict, k) THEN IsTrue ELSE IsFalse]_vars
====
